---- MODULE Spec2Model ----
(***************************************************************************)
(* A model of tools/generate_fonts.py: the bitmap-to-outline font          *)
(* compiler (mask operations, region separation, contour tracing, outline  *)
(* building, the FontBuilder registry, provider processing and build_ttf). *)
(*                                                                         *)
(* Numbers.  The program computes widths and coordinates in floating       *)
(* point; the model computes the same quantities as exact rationals, a     *)
(* pair <<num, den>> in lowest terms with den > 0.  Pixel coordinates and  *)
(* sizes stay integers, as in the program.                                 *)
(***************************************************************************)
EXTENDS Integers, Sequences, FiniteSets, TLC

\* ------------------------------------------------------------------ bounds
\* Every mask of at most this many pixels (width x height) is an input.
MaxCells == 9
\* The longest top-level provider list.
MaxProviders == 2
\* The longest list the expansion of references may grow to: room for the
\* flattening of every acyclic list, where a reference stands for at most
\* two providers, so that only a list that grows for ever is cut off.
MaxList == 2 * MaxProviders

\* ------------------------------------------------------- program constants
FONT_EM == 1200
PIXEL_SCALE == FONT_EM \div 12

\* Python's None, where a glyph path is expected and where a point is.
NULL == [none |-> TRUE]
NoPoint == <<>>
Styles == <<"Regular", "Italic", "Bold", "Bold Italic">>
StyleSet == {Styles[n] : n \in 1..Len(Styles)}

\* ------------------------------------------------------------- rationals
Abs(n) == IF n < 0 THEN -n ELSE n

RECURSIVE Gcd(_, _)
Gcd(a, b) == IF b = 0 THEN a ELSE Gcd(b, a % b)

\* n/d in lowest terms, d > 0.
Rat(n, d) ==
    LET g == Gcd(Abs(n), d)
    IN  IF n = 0 THEN <<0, 1>> ELSE <<n \div g, d \div g>>

Num(n) == <<n, 1>>
RatAdd(a, b) == Rat(a[1] * b[2] + b[1] * a[2], a[2] * b[2])
RatSub(a, b) == Rat(a[1] * b[2] - b[1] * a[2], a[2] * b[2])
RatMul(a, b) == Rat(a[1] * b[1], a[2] * b[2])
\* a / b for b > 0.
RatDiv(a, b) == Rat(a[1] * b[2], a[2] * b[1])
RatLess(a, b) == a[1] * b[2] < b[1] * a[2]

\* ---------------------------------------------------------- pygame.mask
\* A mask is its size and the set of its set bits <<x, y>>, origin top-left.
Mask(w, h) == [w |-> w, h |-> h, ink |-> {}]

get_at(m, x, y) == <<x, y>> \in m.ink

\* Mask.draw(other, offset): OR the bits of other into m, clipped to m.
draw(m, other, ox, oy) ==
    [m EXCEPT !.ink = m.ink \cup
        {q \in {<<p[1] + ox, p[2] + oy>> : p \in other.ink} :
            /\ 0 <= q[1] /\ q[1] < m.w
            /\ 0 <= q[2] /\ q[2] < m.h}]

\* Mask.invert(): flip every bit.
invert(m) ==
    [m EXCEPT !.ink = ((0..(m.w - 1)) \X (0..(m.h - 1))) \ m.ink]

\* Row-major order of pixels: top to bottom, then left to right.
RowMajorBefore(p, q) == p[2] < q[2] \/ (p[2] = q[2] /\ p[1] <= q[1])

FirstPixel(S) == CHOOSE p \in S : \A q \in S : RowMajorBefore(p, q)

\* A component grower that joins bits only when they touch orthogonally.
RECURSIVE GrowOrthogonal(_, _, _)
GrowOrthogonal(ink, S, F) ==
    LET N == (UNION {{<<q[1] - 1, q[2]>>, <<q[1] + 1, q[2]>>,
                      <<q[1], q[2] - 1>>, <<q[1], q[2] + 1>>} : q \in F}
                 \cap ink) \ S
    IN  IF N = {} THEN S ELSE GrowOrthogonal(ink, S \cup N, N)

\* pygame joins bits that touch orthogonally or diagonally.
\* The component of ink that holds the bits of S; F are the bits of S whose
\* neighbours have not been looked at yet.
RECURSIVE Grow8(_, _, _)
Grow8(ink, S, F) ==
    LET N == (UNION {{<<q[1] + dx, q[2] + dy>> : dx \in {-1, 0, 1}, dy \in {-1, 0, 1}} :
                        q \in F} \cap ink) \ S
    IN  IF N = {} THEN S ELSE Grow8(ink, S \cup N, N)

RECURSIVE Components8(_)
Components8(ink) ==
    IF ink = {} THEN <<>>
    ELSE LET c == Grow8(ink, {FirstPixel(ink)}, {FirstPixel(ink)})
         IN  <<c>> \o Components8(ink \ c)

\* Mask.connected_components(): one mask of the same size per component.
connected_components(m) ==
    LET cs == Components8(m.ink)
    IN  [n \in 1..Len(cs) |-> [w |-> m.w, h |-> m.h, ink |-> cs[n]]]

\* Mask.get_bounding_rects(): one rect per connected component.
get_bounding_rects(m) ==
    LET cs == Components8(m.ink)
        Min(S) == CHOOSE a \in S : \A b \in S : a <= b
        Max(S) == CHOOSE a \in S : \A b \in S : a >= b
    IN  [n \in 1..Len(cs) |->
            LET xs == {p[1] : p \in cs[n]}
                ys == {p[2] : p \in cs[n]}
            IN  [left |-> Min(xs), top |-> Min(ys),
                 right |-> Max(xs) + 1, bottom |-> Max(ys) + 1]]

\* ---------------------------------------------------- separate_regions
\* A flood fill that also queues the four diagonal neighbours.
RECURSIVE FloodDiagonal(_, _, _)
FloodDiagonal(inv, S, F) ==
    LET N == (UNION {{<<q[1] + dx, q[2] + dy>> :
                         dx \in {-1, 0, 1}, dy \in {-1, 0, 1}} : q \in F}
                 \cap inv.ink) \ S
    IN  IF N = {} THEN S ELSE FloodDiagonal(inv, S \cup N, N)

\* The flood fill of one background region of inv, started at a seed: a
\* popped position is kept when it is inside inv, set in inv and not yet
\* checked, and then its four orthogonal neighbours are queued.  S are the
\* positions kept so far, F those whose neighbours are still queued.
RECURSIVE Flood4(_, _, _)
Flood4(inv, S, F) ==
    LET N == (UNION {{<<q[1] - 1, q[2]>>, <<q[1] + 1, q[2]>>,
                      <<q[1], q[2] - 1>>, <<q[1], q[2] + 1>>} : q \in F}
                 \cap inv.ink) \ S
    IN  IF N = {} THEN S ELSE Flood4(inv, S \cup N, N)

\* The scan of inv in row-major order: every unchecked set bit starts a
\* region; the region holding (0,0) is skipped, every other region is
\* drawn at (-1,-1) into a mask of the original size.
RECURSIVE HoleScan(_, _, _, _)
HoleScan(inv, w, h, checked) ==
    LET todo == inv.ink \ checked
    IN  IF todo = {} THEN <<>>
        ELSE LET region == [w |-> w + 2, h |-> h + 2,
                            ink |-> Flood4(inv, {FirstPixel(todo)},
                                           {FirstPixel(todo)})]
                 fixed == draw(Mask(w, h), region, -1, -1)
                 rest == HoleScan(inv, w, h, checked \cup region.ink)
             IN  IF get_at(region, 0, 0) THEN rest ELSE <<fixed>> \o rest

separate_regions(m) ==
    LET filled == connected_components(m)
        inv == invert(draw(Mask(m.w + 2, m.h + 2), m, 1, 1))
        holes == HoleScan(inv, m.w, m.h, {})
    IN  [filled |-> filled, holes |-> holes]

\* -------------------------------------------------------- trace_outline
\* get(x, y) of trace_outline: a set bit inside the mask.
get(m, x, y) ==
    /\ 0 <= x /\ x < m.w
    /\ 0 <= y /\ y < m.h
    /\ get_at(m, x, y)

\* A loop body that leaves a corner where two pixels touch diagonally the
\* same way whatever the facing.
TraceStepOneWay(m, pos, facing) ==
    LET x == pos[1]
        y == pos[2]
        tl == get(m, x - 1, y - 1)
        tr == get(m, x, y - 1)
        bl == get(m, x - 1, y)
        br == get(m, x, y)
    IN  IF tl /\ br /\ ~tr /\ ~bl THEN <<<<x + 1, y>>, "right">>
        ELSE IF tr /\ bl /\ ~tl /\ ~br THEN <<<<x, y + 1>>, "down">>
        ELSE IF tl /\ ~bl THEN <<<<x - 1, y>>, "left">>
        ELSE IF tr /\ ~tl THEN <<<<x, y - 1>>, "up">>
        ELSE IF br /\ ~tr THEN <<<<x + 1, y>>, "right">>
        ELSE IF bl /\ ~br THEN <<<<x, y + 1>>, "down">>
        ELSE <<pos, facing>>

\* One pass of the body of the while loop: the next corner and facing.
TraceStep(m, pos, facing) ==
    LET x == pos[1]
        y == pos[2]
        tl == get(m, x - 1, y - 1)
        tr == get(m, x, y - 1)
        bl == get(m, x - 1, y)
        br == get(m, x, y)
    IN  IF tl /\ br /\ ~tr /\ ~bl
        THEN IF facing = "up" THEN <<<<x - 1, y>>, "left">>
                              ELSE <<<<x + 1, y>>, "right">>
        ELSE IF tr /\ bl /\ ~tl /\ ~br
        THEN IF facing = "right" THEN <<<<x, y - 1>>, "up">>
                                 ELSE <<<<x, y + 1>>, "down">>
        ELSE IF tl /\ ~bl THEN <<<<x - 1, y>>, "left">>
        ELSE IF tr /\ ~tl THEN <<<<x, y - 1>>, "up">>
        ELSE IF br /\ ~tr THEN <<<<x + 1, y>>, "right">>
        ELSE IF bl /\ ~br THEN <<<<x, y + 1>>, "down">>
        ELSE <<pos, facing>>

\* More passes than there are (corner, facing) pairs: a walk that has not
\* come back to the start by then never does.
TraceFuel(m) == 4 * (m.w + 1) * (m.h + 1) + 1

RECURSIVE TraceLoop(_, _, _, _, _, _)
TraceLoop(m, start, pos, facing, result, fuel) ==
    LET nxt == TraceStep(m, pos, facing)
        res == Append(result, nxt[1])
    IN  IF nxt[1] = start \/ fuel = 0 THEN res
        ELSE TraceLoop(m, start, nxt[1], nxt[2], res, fuel - 1)

\* The corner sequence of a non-empty region mask, start corner first and
\* last.
trace_outline(m) ==
    LET start == FirstPixel(m.ink)
    IN  TraceLoop(m, start, start, "right", <<start>>, TraceFuel(m))

\* ------------------------------------------------------------ vectorize
\* The cross product is an integer here, so |cross| < 1e-12 is cross = 0.
collinear(p1, p2, p3) ==
    (p2[1] - p1[1]) * (p3[2] - p1[2]) - (p3[1] - p1[1]) * (p2[2] - p1[2]) = 0

\* The pen calls of one contour: moveTo(points[0]), then lineTo(curr)
\* whenever the next point leaves the line through prev and curr.  The
\* result is the list of untransformed points handed to the pen.
RECURSIVE EmitLoop(_, _, _, _, _)
EmitLoop(points, n, prev, curr, out) ==
    IF n > Len(points) THEN out
    ELSE LET p == points[n]
         IN  IF curr # NoPoint /\ ~collinear(prev, curr, p)
             THEN EmitLoop(points, n + 1, curr, p, Append(out, curr))
             ELSE EmitLoop(points, n + 1, prev, p, out)

\* A pen that is handed every traced corner but the closing one.
EmitContourAll(points) == SubSeq(points, 1, Len(points) - 1)

EmitContour(points) ==
    EmitLoop(points, 2, points[1], NoPoint, <<points[1]>>)

\* A reversed() that leaves the order as it is.
ReversedNot(s) == s

Reversed(s) == [n \in 1..Len(s) |-> s[Len(s) + 1 - n]]

\* transform(x, y) of vectorize, for a mask of height h.
transform(p, h, scale, offset, italic) ==
    LET x1 == RatAdd(Num(p[1]), offset[1])
        y1 == RatAdd(Num(p[2]), offset[2])
        x2 == IF italic
              THEN RatAdd(x1, RatDiv(RatSub(Num(h), y1), Num(4)))
              ELSE x1
    IN  <<RatMul(x2, scale), RatMul(RatSub(Num(h), y1), scale)>>

\* One contour as the pen receives it: moveTo and lineTo of the
\* transformed points, then closePath.
PenContour(points, h, scale, offset, italic) ==
    LET pts == EmitContour(points)
    IN  [n \in 1..Len(pts) |-> transform(pts[n], h, scale, offset, italic)]

MaxOf(S) == CHOOSE a \in S : \A b \in S : a >= b

\* Lines 498-523 of vectorize: the extent and the pen's glyph, the
\* contours of the filled regions first and then those of the holes.
VectorizeBody(m, regions, scale, offset, italic) ==
    LET filled == regions.filled
        holes == regions.holes
        rects == get_bounding_rects(m)
        size == <<MaxOf({rects[n].right : n \in 1..Len(rects)}),
                  MaxOf({rects[n].top : n \in 1..Len(rects)})>>
        fc == [n \in 1..Len(filled) |->
                PenContour(trace_outline(filled[n]),
                           m.h, scale, offset, italic)]
        hc == [n \in 1..Len(holes) |->
                PenContour(Reversed(trace_outline(holes[n])),
                           m.h, scale, offset, italic)]
    IN  [path |-> [contours |-> fc \o hc], size |-> size]

\* A vectorize that hands back an empty glyph where the code returns None.
VectorizeRegionsEmptyGlyph(m, regions, scale, offset, italic) ==
    IF Len(regions.filled) = 0
    THEN [path |-> [contours |-> <<>>], size |-> <<0, 0>>]
    ELSE VectorizeBody(m, regions, scale, offset, italic)

\* The part of vectorize after separate_regions has returned regions.
\* The result is [path, size]: path is NULL or the pen's glyph; size is
\* (gw, gh) in mask pixels.
VectorizeRegions(m, regions, scale, offset, italic) ==
    IF Len(regions.filled) = 0
    THEN [path |-> NULL, size |-> <<0, 0>>]
    ELSE VectorizeBody(m, regions, scale, offset, italic)

vectorize(m, scale, offset, italic) ==
    VectorizeRegions(m, separate_regions(m), scale, offset, italic)

\* ---------------------------------------------------------- FontBuilder
\* Character keys: a character is its code point; the reserved keys
\* ".notdef" and ".null" are the two negative numbers below.
NOTDEF == -1
DOTNULL == -2

\* A style's dict in insertion order: a sequence of items, each the
\* character with the fields of its entry.
DictHas(d, c) == \E n \in 1..Len(d) : d[n].char = c
DictGet(d, c) == d[CHOOSE n \in 1..Len(d) : d[n].char = c]
DictSet(d, c, e) ==
    IF DictHas(d, c)
    THEN [n \in 1..Len(d) |-> IF d[n].char = c THEN e ELSE d[n]]
    ELSE Append(d, e)

IsBold(style) == style \in {"Bold", "Bold Italic"}
IsItalic(style) == style \in {"Italic", "Bold Italic"}

\* FontBuilder.__init__
NewFontBuilder == [seen |-> {}, fonts |-> [s \in StyleSet |-> <<>>]]

\* An add_space that gives the bold styles the plain width.
add_space_plain(b, char, width) ==
    IF char \in b.seen THEN b
    ELSE [seen |-> b.seen \cup {char},
          fonts |-> [s \in StyleSet |->
              DictSet(b.fonts[s], char,
                  [char |-> char,
                   width |-> RatMul(Num(width), Num(PIXEL_SCALE)),
                   path |-> NULL])]]

\* FontBuilder.add_space on the builder b = [seen, fonts].
add_space(b, char, width) ==
    IF char \in b.seen THEN b
    ELSE [seen |-> b.seen \cup {char},
          fonts |-> [s \in StyleSet |->
              DictSet(b.fonts[s], char,
                  [char |-> char,
                   width |-> RatMul(Num(IF IsBold(s) THEN width + 1 ELSE width),
                                    Num(PIXEL_SCALE)),
                   path |-> NULL])]]

\* The locals of add_glyph.
GlyphScale(mask, height) == RatMul(Rat(height, mask.h), Num(PIXEL_SCALE))
AddWidth(mask, height) == Rat(mask.h, height)

\* A bold mask that is drawn once, without the copy shifted right.
BoldMaskOnce(mask) == draw(Mask(mask.w + 1, mask.h), mask, 0, 0)

BoldMask(mask) ==
    draw(draw(Mask(mask.w + 1, mask.h), mask, 0, 0), mask, 1, 0)

GlyphOffset(mask, height, ascent) ==
    <<Num(0), RatMul(Rat(height - ascent, height), Num(mask.h))>>
ItalicOffset(mask, height, ascent) ==
    <<Rat(-6, height), GlyphOffset(mask, height, ascent)[2]>>

StyleMask(style, mask, bold) == IF IsBold(style) THEN bold ELSE mask
StyleOffset(style, mask, height, ascent) ==
    IF IsItalic(style) THEN ItalicOffset(mask, height, ascent)
                       ELSE GlyphOffset(mask, height, ascent)

\* The entry add_glyph stores from vectorize's result v = [path, size].
GlyphItem(char, v, mask, height) ==
    [char |-> char,
     width |-> RatMul(RatAdd(Num(v.size[1]), AddWidth(mask, height)),
                      GlyphScale(mask, height)),
     height |-> RatMul(Num(v.size[2]), GlyphScale(mask, height)),
     path |-> v.path]

\* Lines 185-210 of add_glyph: the character is marked seen and gets its
\* entry in every style.
StoreGlyph(b, char, mask, height, ascent) ==
    LET boldMask == BoldMask(mask)
    IN  [seen |-> b.seen \cup {char},
         fonts |-> [s \in StyleSet |->
             DictSet(b.fonts[s], char,
                 GlyphItem(char,
                     vectorize(StyleMask(s, mask, boldMask),
                               GlyphScale(mask, height),
                               StyleOffset(s, mask, height, ascent),
                               IsItalic(s)),
                     mask, height))]]

\* An add_glyph that does not look at seen.
add_glyph_unguarded(b, char, mask, height, ascent) ==
    StoreGlyph(b, char, mask, height, ascent)

\* FontBuilder.add_glyph on the builder b = [seen, fonts].
add_glyph(b, char, mask, height, ascent) ==
    IF char \in b.seen THEN b
    ELSE StoreGlyph(b, char, mask, height, ascent)

\* The mask process_modern_font and generate_legacy_fonts draw for
\* ".notdef": the border of a 5 x 8 box.
NotdefMask ==
    [w |-> 5, h |-> 8,
     ink |-> {p \in (0..4) \X (0..7) :
                 p[1] = 0 \/ p[2] = 0 \/ p[1] = 4 \/ p[2] = 7}]

\* A mask written as its rows of 0 and 1.
MaskOf(rows) ==
    [w |-> Len(rows[1]), h |-> Len(rows),
     ink |-> {p \in (0..(Len(rows[1]) - 1)) \X (0..(Len(rows) - 1)) :
                 rows[p[2] + 1][p[1] + 1] = 1}]

\* ------------------------------------------------------------ build_ttf
\* Glyph names are sequences of characters.
NotdefName == <<".", "n", "o", "t", "d", "e", "f">>
NullName == <<".", "n", "u", "l", "l">>

\* The Adobe glyph list get_aglfn reads: the entries of the characters
\* that occur in the model.
Aglfn == (32 :> <<"s", "p", "a", "c", "e">>) @@ (65 :> <<"A">>)

HexDigits ==
    <<"0", "1", "2", "3", "4", "5", "6", "7",
      "8", "9", "A", "B", "C", "D", "E", "F">>

RECURSIVE Hex(_)
Hex(n) == IF n < 16 THEN <<HexDigits[n + 1]>>
          ELSE Append(Hex(n \div 16), HexDigits[(n % 16) + 1])

\* f"{n:04X}": upper-case hexadecimal, padded with zeros to four digits.
Hex04X(n) ==
    LET d == Hex(n)
    IN  [m \in 1..(IF Len(d) < 4 THEN 4 - Len(d) ELSE 0) |-> "0"] \o d

\* aglfn.get(char, f"uni{ord(char):04X}")
GlyphNameOf(char) ==
    IF char \in DOMAIN Aglfn THEN Aglfn[char]
    ELSE <<"u", "n", "i">> \o Hex04X(char)

\* d[key] = value on a dict kept as a function.
Put(d, key, value) ==
    [x \in DOMAIN d \cup {key} |-> IF x = key THEN value ELSE d[x]]

\* fontTools' empty Glyph().
EmptyGlyph == [contours |-> <<>>]

\* A loop body that leaves the reserved keys out of the tables.
BuildItemSkipReserved(t, item) ==
    IF item.char \in {NOTDEF, DOTNULL} THEN t
    ELSE [order |-> Append(t.order, GlyphNameOf(item.char)),
          cmap |-> Put(t.cmap, item.char, GlyphNameOf(item.char)),
          widths |-> Put(t.widths, GlyphNameOf(item.char), item.width),
          paths |-> Put(t.paths, GlyphNameOf(item.char),
                        IF item.path # NULL THEN item.path ELSE EmptyGlyph)]

\* A loop body that never appends to the glyph order.
BuildItemNoOrder(t, item) ==
    LET glyph_name == IF item.char = NOTDEF THEN NotdefName
                      ELSE IF item.char = DOTNULL THEN NullName
                      ELSE GlyphNameOf(item.char)
    IN  [order |-> t.order,
         cmap |-> IF item.char \in {NOTDEF, DOTNULL} THEN t.cmap
                  ELSE Put(t.cmap, item.char, glyph_name),
         widths |-> Put(t.widths, glyph_name, item.width),
         paths |-> Put(t.paths, glyph_name,
                       IF item.path # NULL THEN item.path ELSE EmptyGlyph)]

\* Lines 404-413 for one item of glyphs.items(), on the tables so far.
BuildItem(t, item) ==
    LET reserved == item.char \in {NOTDEF, DOTNULL}
        glyph_name == IF item.char = NOTDEF THEN NotdefName
                      ELSE IF item.char = DOTNULL THEN NullName
                      ELSE GlyphNameOf(item.char)
    IN  [order |-> IF reserved THEN t.order ELSE Append(t.order, glyph_name),
         cmap |-> IF reserved THEN t.cmap ELSE Put(t.cmap, item.char, glyph_name),
         widths |-> Put(t.widths, glyph_name, item.width),
         paths |-> Put(t.paths, glyph_name,
                       IF item.path # NULL THEN item.path ELSE EmptyGlyph)]

RECURSIVE BuildLoop(_, _, _)
BuildLoop(t, glyphs, n) ==
    IF n > Len(glyphs) THEN t
    ELSE BuildLoop(BuildItem(t, glyphs[n]), glyphs, n + 1)

\* Lines 396-424 of build_ttf: the glyph order, the character map, the
\* advance widths and the outlines handed to fontTools, from one style's
\* dict.
build_ttf(glyphs) ==
    BuildLoop([order |-> <<NotdefName, NullName>>,
               cmap |-> <<>>,
               widths |-> (NotdefName :> Num(0)) @@ (NullName :> Num(0)),
               paths |-> (NotdefName :> EmptyGlyph) @@ (NullName :> EmptyGlyph)],
              glyphs, 1)

\* ------------------------------------------------------ the glyph sources
\* unihex_to_mask(width, rows): rows are pairs (w, bits).
unihex_to_mask(width, rows) ==
    [w |-> width, h |-> 16,
     ink |-> {p \in (0..(width - 1)) \X (0..15) :
                 LET w == rows[p[2] + 1][1]
                     bits == rows[p[2] + 1][2]
                 IN  p[1] < w /\ (bits \div (2 ^ (w - 1 - p[1]))) % 2 = 1}]

\* provider.get("height", 8)
ProviderHeight(provider) ==
    IF "height" \in DOMAIN provider THEN provider.height ELSE 8

\* The cells of a glyph image that the loops of lines 292-299 visit, in
\* their order: the character of chars[y][x] with the mask of that cell.
BitmapCells(provider, img) ==
    LET cols == Len(provider.chars[1])
        n == Len(provider.chars) * cols
    IN  [c \in 1..n |->
            LET y == ((c - 1) \div cols) + 1
                x == ((c - 1) % cols) + 1
            IN  [char |-> provider.chars[y][x], mask |-> img[y][x]]]

\* The largest code point line 306 keeps.
MaxBmp == 65535

\* A line 306 that keeps every glyph.
UnihexKeptAll(glyphs) == glyphs

\* The dict comprehension of line 306 on parse_unihex_zip's result.
UnihexKept(glyphs) == SelectSeq(glyphs, LAMBDA g : g.char <= MaxBmp)

\* The masks that the sources of the model hold.
RingMask == MaskOf(<< <<1,1,1>>, <<1,0,1>>, <<1,1,1>> >>)
DotMask == MaskOf(<< <<0,0,0>>, <<0,1,0>>, <<0,0,0>> >>)
DiagMask == MaskOf(<< <<1,0,0>>, <<0,1,0>>, <<0,0,0>> >>)
BlankMask == MaskOf(<< <<0,0,0>>, <<0,0,0>>, <<0,0,0>> >>)

\* A unihex glyph of width 8: sixteen rows (8, bits) with one row of ink.
HexRows(y, bits) == [r \in 1..16 |-> <<8, IF r = y THEN bits ELSE 0>>]


\* The first code point above MaxBmp.
Astral == MaxBmp + 1

\* The providers that the provider lists of the model are made of.
SpaceA == [type |-> "space", advances |-> << <<32, 4>> >>]
SpaceB == [type |-> "space", advances |-> << <<65, 3>>, <<Astral, 2>> >>]
BitmapA ==
    [type |-> "bitmap", file |-> "minecraft:font/ascii.png", ascent |-> 7,
     chars |-> << <<65, 0>>, <<Astral, 32>> >>]
BitmapGone ==
    [type |-> "bitmap", file |-> "minecraft:font/gone.png", height |-> 8,
     ascent |-> 7, chars |-> << <<65>> >>]
UnihexA == [type |-> "unihex", hex_file |-> "minecraft:font/unifont.zip"]
UnihexGone == [type |-> "unihex", hex_file |-> "minecraft:font/gone.zip"]
UnihexBad == [type |-> "unihex", hex_file |-> "minecraft:font/bad.zip"]
RefSpace == [type |-> "reference", id |-> "minecraft:include/space"]
RefGone == [type |-> "reference", id |-> "minecraft:include/gone"]
RefEmpty == [type |-> "reference", id |-> "minecraft:include/empty"]
RefLoop == [type |-> "reference", id |-> "minecraft:include/loop"]
RefNest == [type |-> "reference", id |-> "minecraft:include/nest"]
RefPing == [type |-> "reference", id |-> "minecraft:include/ping"]
RefPong == [type |-> "reference", id |-> "minecraft:include/pong"]
Ttf == [type |-> "ttf"]

ProviderPool ==
    {SpaceA, SpaceB, BitmapA, BitmapGone, UnihexA, UnihexGone, UnihexBad,
     RefSpace, RefGone, RefEmpty, RefLoop, RefNest, RefPing, Ttf}

\* The provider lists of the jar, by reference id (jar.read raises
\* KeyError for any other), and the one that download_asset finds.
JarFonts ==
    ("minecraft:include/space" :> <<SpaceA>>)
    @@ ("minecraft:include/empty" :> <<>>)
    @@ ("minecraft:include/loop" :> <<RefLoop, SpaceA>>)
    @@ ("minecraft:include/nest" :> <<RefSpace, SpaceB>>)
    @@ ("minecraft:include/ping" :> <<RefPong>>)
    @@ ("minecraft:include/pong" :> <<RefPing>>)
AssetFonts == ("minecraft:include/empty" :> <<SpaceB>>)

\* The glyph images of the jar, as their cells' masks.
JarTextures ==
    ("minecraft:font/ascii.png" :>
        << <<RingMask, DotMask>>, <<DiagMask, BlankMask>> >>)

\* The unihex archives download_asset finds, as parse_unihex_zip reads
\* them: a list of glyphs, or "raises" for an archive it cannot read.
HexAssets ==
    ("minecraft:font/unifont.zip" :>
        [raises |-> FALSE,
         glyphs |-> << [char |-> 65, width |-> 8, rows |-> HexRows(8, 24)],
                       [char |-> 19968, width |-> 8, rows |-> HexRows(3, 255)],
                       [char |-> Astral, width |-> 8, rows |-> HexRows(5, 129)] >>])
    @@ ("minecraft:font/bad.zip" :> [raises |-> TRUE, glyphs |-> <<>>])

\* ------------------------------------------------------------ the state
VARIABLES
    seen,       \* FontBuilder.seen
    fonts,      \* FontBuilder.fonts: style -> dict
    pc,         \* where the running function is
    arg,        \* the arguments of the add_space or add_glyph call
    bold,       \* add_glyph's local bold mask
    k,          \* add_glyph's position in its list of styles
    regions,    \* vectorize's local (filled, holes)
    driver,     \* "modern": process_modern_font; "legacy": generate_legacy_fonts
    data,       \* the driver's input: the provider list read from the jar
    providers,  \* process_modern_font's local list
    i,          \* the driver's position in its list
    j,          \* the driver's position inside the i-th source
    built       \* style -> what save() got from build_ttf

vars == <<seen, fonts, pc, arg, bold, k, regions,
          driver, data, providers, i, j, built>>
glyphVars == <<bold, k, regions>>
driverVars == <<driver, data, providers, i, j, built>>

NoMask == Mask(0, 0)
NoRegions == [filled |-> <<>>, holes |-> <<>>]
NoCall == [op |-> "none"]
NoFont == [order |-> <<>>, cmap |-> <<>>, widths |-> <<>>, paths |-> <<>>]

\* --------------------------------------------------------- the drivers
SeqsUpTo(S, n) == UNION {[1..m -> S] : m \in 0..n}

\* What generate_legacy_fonts reads: the cells of ascii.png that are not
\* blank or that the model follows, in the order of range(256), and the
\* unicode pages, in the order of range(1, 256).
LegacyInputs ==
    { [ascii |-> << [i |-> 32, mask |-> DotMask],
                    [i |-> 65, mask |-> RingMask],
                    [i |-> 66, mask |-> BlankMask] >>,
       pages |-> << [page |-> 78, present |-> TRUE,
                     cells |-> << [i |-> 0, mask |-> DotMask],
                                  [i |-> 1, mask |-> BlankMask] >>],
                    [page |-> 216, present |-> TRUE,
                     cells |-> << [i |-> 0, mask |-> DotMask] >>] >>],
      [ascii |-> << [i |-> 65, mask |-> DiagMask] >>,
       pages |-> << [page |-> 1, present |-> FALSE, cells |-> <<>>],
                    [page |-> 2, present |-> TRUE,
                     cells |-> << [i |-> 7, mask |-> RingMask] >>] >>] }

Init ==
    /\ seen = NewFontBuilder.seen
    /\ fonts = NewFontBuilder.fonts
    /\ arg = NoCall
    /\ bold = NoMask /\ k = 1 /\ regions = NoRegions
    /\ built = [s \in StyleSet |-> NoFont]
    /\ i = 1 /\ j = 1
    /\ \/ /\ driver = "modern"
          /\ data \in SeqsUpTo(ProviderPool, MaxProviders)
          /\ providers = data
          /\ pc = "expand"
       \/ /\ driver = "legacy"
          /\ data \in LegacyInputs
          /\ providers = <<>>
          /\ pc = "notdef"

Builder == [seen |-> seen, fonts |-> fonts]

\* A call of add_space, with what it leaves in the builder.
CallAddSpace(char, width) ==
    LET b == add_space(Builder, char, width)
    IN  /\ arg' = [op |-> "add_space", char |-> char, width |-> width]
        /\ seen' = b.seen
        /\ fonts' = b.fonts

\* A call of add_glyph, with what it leaves in the builder.
CallAddGlyph(char, mask, height, ascent) ==
    LET b == add_glyph(Builder, char, mask, height, ascent)
    IN  /\ arg' = [op |-> "add_glyph", char |-> char, mask |-> mask,
                   height |-> height, ascent |-> ascent]
        /\ seen' = b.seen
        /\ fonts' = b.fonts

NoCallMade == arg' = NoCall /\ UNCHANGED <<seen, fonts>>

\* Lines 247-262, one pass of the while loop on a reference: the list it
\* names is read from the jar (KeyError when it is not there) or, when the
\* jar's list is empty, from the downloaded asset (ValueError when there
\* is none), and takes the reference's place.
ExpandReference ==
    /\ driver = "modern" /\ pc = "expand"
    /\ i <= Len(providers)
    /\ providers[i].type = "reference"
    /\ LET id == providers[i].id
           ref == IF id \in DOMAIN JarFonts /\ JarFonts[id] # <<>>
                  THEN JarFonts[id] ELSE AssetFonts[id]
       IN  IF id \notin DOMAIN JarFonts
              \/ (JarFonts[id] = <<>> /\ id \notin DOMAIN AssetFonts)
           THEN pc' = "aborted" /\ UNCHANGED providers
           ELSE /\ Len(providers) - 1 + Len(ref) <= MaxList
                /\ providers' = SubSeq(providers, 1, i - 1) \o ref
                                  \o SubSeq(providers, i + 1, Len(providers))
                /\ pc' = pc
    /\ NoCallMade
    /\ UNCHANGED <<glyphVars, driver, data, i, j, built>>

\* Lines 247-262, one pass of the while loop on any other provider.
ExpandSkip ==
    /\ driver = "modern" /\ pc = "expand"
    /\ i <= Len(providers)
    /\ providers[i].type # "reference"
    /\ i' = i + 1
    /\ NoCallMade
    /\ UNCHANGED <<glyphVars, pc, driver, data, providers, j, built>>

\* Line 247: the loop ends.
ExpandExit ==
    /\ driver = "modern" /\ pc = "expand"
    /\ i > Len(providers)
    /\ pc' = "notdef"
    /\ NoCallMade
    /\ UNCHANGED <<glyphVars, driver, data, providers, i, j, built>>

\* The driver moves on from item j of n in its i-th source (of count).
Advance(n, count) ==
    /\ i' = IF j < n THEN i ELSE i + 1
    /\ j' = IF j < n THEN j + 1 ELSE 1
    /\ pc' = IF j >= n /\ i + 1 > count
             THEN (IF pc = "ascii" THEN "pages" ELSE "save")
             ELSE pc

\* The driver skips its i-th source (of count).
NextSource(count) ==
    /\ i' = i + 1
    /\ j' = 1
    /\ pc' = IF i + 1 > count THEN "save" ELSE pc

\* Lines 264-269 and 325-330: ".notdef".
AddNotdef ==
    /\ pc = "notdef"
    /\ CallAddGlyph(NOTDEF, NotdefMask, 8, 8)
    /\ i' = 1 /\ j' = 1
    /\ pc' = IF driver = "legacy" THEN "space"
             ELSE IF Len(providers) = 0 THEN "save" ELSE "provider"
    /\ UNCHANGED <<glyphVars, driver, data, providers, built>>

\* Lines 274-276: one character of a space provider.
SpaceAdvance ==
    /\ pc = "provider"
    /\ providers[i].type = "space"
    /\ LET items == providers[i].advances
       IN  /\ j <= Len(items)
           /\ CallAddSpace(items[j][1], items[j][2])
           /\ Advance(Len(items), Len(providers))
    /\ UNCHANGED <<glyphVars, driver, data, providers, built>>

\* Lines 278-284: the image of a bitmap provider is not in the jar.
BitmapMissing ==
    /\ pc = "provider"
    /\ providers[i].type = "bitmap"
    /\ providers[i].file \notin DOMAIN JarTextures
    /\ NoCallMade
    /\ NextSource(Len(providers))
    /\ UNCHANGED <<glyphVars, driver, data, providers, built>>

\* Lines 286-299: one cell of a bitmap provider's image.
BitmapCell ==
    /\ pc = "provider"
    /\ providers[i].type = "bitmap"
    /\ providers[i].file \in DOMAIN JarTextures
    /\ LET cells == BitmapCells(providers[i], JarTextures[providers[i].file])
       IN  /\ j <= Len(cells)
           /\ IF cells[j].char = 0
              THEN NoCallMade
              ELSE CallAddGlyph(cells[j].char, cells[j].mask,
                                ProviderHeight(providers[i]),
                                providers[i].ascent)
           /\ Advance(Len(cells), Len(providers))
    /\ UNCHANGED <<glyphVars, driver, data, providers, built>>

\* Lines 301-313: download_asset or parse_unihex_zip raises, or no glyph
\* is left after line 306; the except clause prints a warning.
UnihexNothing ==
    /\ pc = "provider"
    /\ providers[i].type = "unihex"
    /\ LET f == providers[i].hex_file
       IN  IF f \in DOMAIN HexAssets
           THEN HexAssets[f].raises \/ UnihexKept(HexAssets[f].glyphs) = <<>>
           ELSE TRUE
    /\ NoCallMade
    /\ NextSource(Len(providers))
    /\ UNCHANGED <<glyphVars, driver, data, providers, built>>

\* Lines 304-311: one glyph of a unihex provider.
UnihexGlyph ==
    /\ pc = "provider"
    /\ providers[i].type = "unihex"
    /\ providers[i].hex_file \in DOMAIN HexAssets
    /\ ~HexAssets[providers[i].hex_file].raises
    /\ LET glyphs == UnihexKept(HexAssets[providers[i].hex_file].glyphs)
       IN  /\ j <= Len(glyphs)
           /\ CallAddGlyph(glyphs[j].char,
                           unihex_to_mask(glyphs[j].width, glyphs[j].rows),
                           8, 7)
           /\ Advance(Len(glyphs), Len(providers))
    /\ UNCHANGED <<glyphVars, driver, data, providers, built>>

\* Lines 271-313: a provider of no type the loop knows, or a space
\* provider without characters.
OtherProvider ==
    /\ pc = "provider"
    /\ IF providers[i].type = "space" THEN providers[i].advances = <<>>
       ELSE providers[i].type \notin {"bitmap", "unihex"}
    /\ NoCallMade
    /\ NextSource(Len(providers))
    /\ UNCHANGED <<glyphVars, driver, data, providers, built>>

\* Line 331: the legacy font's space.
LegacySpace ==
    /\ driver = "legacy" /\ pc = "space"
    /\ CallAddSpace(32, 4)
    /\ pc' = "ascii"
    /\ UNCHANGED <<glyphVars, driver, data, providers, i, j, built>>

\* Lines 337-345: one cell of ascii.png.
LegacyAsciiCell ==
    /\ driver = "legacy" /\ pc = "ascii"
    /\ j <= Len(data.ascii)
    /\ LET cell == data.ascii[j]
       IN  IF cell.i # 32 /\ cell.mask.ink # {}
           THEN CallAddGlyph(cell.i, cell.mask, 8, 7)
           ELSE NoCallMade
    /\ j' = IF j < Len(data.ascii) THEN j + 1 ELSE 1
    /\ pc' = IF j < Len(data.ascii) THEN pc
             ELSE IF Len(data.pages) = 0 THEN "save" ELSE "pages"
    /\ UNCHANGED <<glyphVars, driver, data, providers, i, built>>

\* Lines 356-363: a page of the surrogate range, a page whose image is
\* not in the jar, or a page without a cell.
LegacyPageSkipped ==
    /\ driver = "legacy" /\ pc = "pages"
    /\ LET page == data.pages[i]
       IN  IF 216 <= page.page /\ page.page <= 223 THEN TRUE
           ELSE IF ~page.present THEN TRUE
           ELSE page.cells = <<>>
    /\ NoCallMade
    /\ NextSource(Len(data.pages))
    /\ UNCHANGED <<glyphVars, driver, data, providers, built>>

\* Lines 366-387: one cell of a unicode page.
LegacyPageCell ==
    /\ driver = "legacy" /\ pc = "pages"
    /\ LET page == data.pages[i]
       IN  /\ ~(216 <= page.page /\ page.page <= 223)
           /\ page.present
           /\ j <= Len(page.cells)
           /\ LET cp == page.page * 256 + page.cells[j].i
              IN  IF cp \notin seen /\ page.cells[j].mask.ink # {}
                  THEN CallAddGlyph(cp, page.cells[j].mask, 8, 7)
                  ELSE NoCallMade
           /\ Advance(Len(page.cells), Len(data.pages))
    /\ UNCHANGED <<glyphVars, driver, data, providers, built>>

\* FontBuilder.save, lines 212-218: build_ttf for every style.
Save ==
    /\ pc = "save"
    /\ built' = [s \in StyleSet |-> build_ttf(fonts[s])]
    /\ pc' = "saved"
    /\ NoCallMade
    /\ UNCHANGED <<glyphVars, driver, data, providers, i, j>>

Next ==
    \/ ExpandReference \/ ExpandSkip \/ ExpandExit
    \/ AddNotdef
    \/ SpaceAdvance \/ BitmapMissing \/ BitmapCell
    \/ UnihexNothing \/ UnihexGlyph \/ OtherProvider
    \/ LegacySpace \/ LegacyAsciiCell \/ LegacyPageSkipped \/ LegacyPageCell
    \/ Save

Spec == Init /\ [][Next]_vars

\* ------------------------------------------------ claims on the drivers

\* C1: first writer wins.  A call of add_space or add_glyph for a key that
\* is already registered, whichever call registered it and whatever the
\* new mask or width, leaves seen and every entry of every style as they
\* were.
C1_FirstWriterWins ==
    [][(arg'.op \in {"add_space", "add_glyph"} /\ arg'.char \in seen)
          => (seen' = seen /\ fonts' = fonts)]_vars

\* add_glyph was called with an inked mask for a key that holds the
\* width-only entry of an earlier add_space.
C1_Witness ==
    /\ arg.op = "add_glyph"
    /\ arg.mask.ink # {}
    /\ arg.char \in seen
    /\ \A s \in StyleSet :
          /\ DictGet(fonts[s], arg.char).path = NULL
          /\ "height" \notin DOMAIN DictGet(fonts[s], arg.char)

\* C7: add_space for a character that is not registered stores, in every
\* style, an entry without an outline whose advance width is w x 100 for
\* Regular and Italic and (w+1) x 100 for Bold and Bold Italic.
C7_SpaceWidths ==
    [][(arg'.op = "add_space" /\ arg'.char \notin seen) =>
          /\ arg'.char \in seen'
          /\ \A s \in StyleSet :
                /\ DictHas(fonts'[s], arg'.char)
                /\ DictGet(fonts'[s], arg'.char) =
                      [char |-> arg'.char,
                       width |-> Num(IF s \in {"Bold", "Bold Italic"}
                                     THEN (arg'.width + 1) * 100
                                     ELSE arg'.width * 100),
                       path |-> NULL]]_vars

C7_Witness ==
    /\ arg.op = "add_space"
    /\ arg.width = 4
    /\ DictGet(fonts["Regular"], arg.char).width = Num(400)
    /\ DictGet(fonts["Italic"], arg.char).width = Num(400)
    /\ DictGet(fonts["Bold"], arg.char).width = Num(500)
    /\ DictGet(fonts["Bold Italic"], arg.char).width = Num(500)
    /\ \A s \in StyleSet : DictGet(fonts[s], arg.char).path = NULL

InOrder(t, name) == \E n \in 1..Len(t.order) : t.order[n] = name

\* C2 as stated: in every font record built, ".notdef" and ".null" are
\* present with advance width 0 and an empty outline.
C2_AsStated ==
    pc = "saved" =>
        \A s \in StyleSet : \A name \in {NotdefName, NullName} :
            /\ InOrder(built[s], name)
            /\ built[s].widths[name] = Num(0)
            /\ built[s].paths[name] = EmptyGlyph

\* C2, amended: in every font record built, ".notdef" and ".null" are
\* present; ".null" has advance width 0 and an empty outline; ".notdef"
\* has the outline of the 5 x 8 ring the driver registered for it (two
\* contours of four points) and that entry's advance width, 600 for
\* Regular and Italic and 700 for Bold and Bold Italic.
C2_Reserved ==
    pc = "saved" =>
        \A s \in StyleSet :
            LET t == built[s]
            IN  /\ InOrder(t, NotdefName) /\ InOrder(t, NullName)
                /\ t.widths[NullName] = Num(0)
                /\ t.paths[NullName] = EmptyGlyph
                /\ t.widths[NotdefName] =
                      Num(IF s \in {"Bold", "Bold Italic"} THEN 700 ELSE 600)
                /\ t.paths[NotdefName] = DictGet(fonts[s], NOTDEF).path
                /\ Len(t.paths[NotdefName].contours) = 2
                /\ Len(t.paths[NotdefName].contours[1]) = 4
                /\ Len(t.paths[NotdefName].contours[2]) = 4

C2_Witness ==
    /\ pc = "saved"
    /\ driver = "legacy"
    /\ Len(built["Bold"].order) > 3
    /\ built["Bold"].widths[NotdefName] = Num(700)

\* C3: in every font record built, the glyph order begins with ".notdef"
\* and ".null", every code point of the character map maps to a name of
\* the glyph order, and every name of the glyph order has an advance
\* width and an outline.
C3_Assembly ==
    pc = "saved" =>
        \A s \in StyleSet :
            LET t == built[s]
            IN  /\ Len(t.order) >= 2
                /\ t.order[1] = NotdefName
                /\ t.order[2] = NullName
                /\ \A cp \in DOMAIN t.cmap : InOrder(t, t.cmap[cp])
                /\ \A n \in 1..Len(t.order) :
                      /\ t.order[n] \in DOMAIN t.widths
                      /\ t.order[n] \in DOMAIN t.paths

\* A record with a name from the glyph list and a generated name.
C3_Witness ==
    /\ pc = "saved"
    /\ 65 \in DOMAIN built["Regular"].cmap
    /\ 19968 \in DOMAIN built["Regular"].cmap
    /\ built["Regular"].cmap[65] = <<"A">>
    /\ built["Regular"].cmap[19968] = <<"u", "n", "i", "4", "E", "0", "0">>

\* The characters a provider hands to add_space or add_glyph when its
\* kind does not filter: those of a space provider, and those of a bitmap
\* provider whose image is in the jar.
Lists(provider, c) ==
    IF provider.type = "space"
    THEN \E n \in 1..Len(provider.advances) : provider.advances[n][1] = c
    ELSE IF provider.type = "bitmap"
    THEN /\ provider.file \in DOMAIN JarTextures
         /\ c # 0
         /\ \E y \in 1..Len(provider.chars) :
               \E x \in 1..Len(provider.chars[y]) : provider.chars[y][x] = c
    ELSE FALSE

\* C8 as stated: after process_modern_font the registry holds no
\* character above 0xFFFF, whatever the providers.
C8_AsStated ==
    driver = "modern" => \A c \in seen : c <= MaxBmp

\* C8, amended: a unihex provider never registers a character above
\* 0xFFFF, and dropping it is no error; a space provider and a bitmap
\* provider register the characters they list, so that a character above
\* 0xFFFF is registered exactly when such a provider lists it.
C8_UnihexOnly ==
    driver = "modern" =>
        /\ \A c \in seen : c > MaxBmp =>
              \E n \in 1..Len(providers) : Lists(providers[n], c)
        /\ pc \in {"save", "saved"} =>
              \A n \in 1..Len(providers) :
                  Lists(providers[n], Astral) => Astral \in seen
        /\ pc = "aborted" => seen = {}

\* The unihex archive that holds a character above 0xFFFF was processed:
\* its other characters are registered and that one is not.
C8_Witness ==
    /\ driver = "modern"
    /\ pc = "saved"
    /\ \E n \in 1..Len(providers) : providers[n] = UnihexA
    /\ 19968 \in seen
    /\ Astral \notin seen

\* A provider of the top-level list that cannot be resolved.
Unresolvable(provider) ==
    IF provider.type = "bitmap" THEN provider.file \notin DOMAIN JarTextures
    ELSE IF provider.type = "unihex"
    THEN IF provider.hex_file \in DOMAIN HexAssets
         THEN HexAssets[provider.hex_file].raises ELSE TRUE
    ELSE IF provider.type = "reference"
    THEN provider.id \notin DOMAIN JarFonts
    ELSE FALSE

\* C9: a provider that cannot be resolved does not abort the build: it is
\* skipped with the registry as it was, and the providers after it are
\* still processed.
C9_AsStated ==
    /\ pc # "aborted"
    /\ (driver = "modern" /\ pc \in {"save", "saved"}) =>
          \A n \in 1..Len(data) :
              (n > 1 /\ Unresolvable(data[n - 1]) /\ data[n].type = "space") =>
                  \A m \in 1..Len(data[n].advances) :
                      data[n].advances[m][1] \in seen

\* ------------------------------------------- one add_glyph call, by steps
MasksOfSize(w, h) ==
    {[w |-> w, h |-> h, ink |-> S] : S \in SUBSET ((0..(w - 1)) \X (0..(h - 1)))}

\* Every mask of the bounded sizes.
InputMasks ==
    UNION {MasksOfSize(d[1], d[2]) :
              d \in {e \in (1..MaxCells) \X (1..MaxCells) :
                         e[1] * e[2] <= MaxCells}}

\* Larger shapes: a square with a centred 2 x 2 hole, two holes side by
\* side, a hole around an island, two holes that touch at a corner, and a
\* hole that is pinched at a corner.
ShapeMasks ==
    { MaskOf(<< <<1,1,1,1>>, <<1,0,0,1>>, <<1,0,0,1>>, <<1,1,1,1>> >>),
      MaskOf(<< <<1,1,1,1,1>>, <<1,0,1,0,1>>, <<1,1,1,1,1>> >>),
      MaskOf(<< <<1,1,1,1,1>>, <<1,0,0,0,1>>, <<1,0,1,0,1>>,
                <<1,0,0,0,1>>, <<1,1,1,1,1>> >>),
      MaskOf(<< <<1,1,1,1>>, <<1,0,1,1>>, <<1,1,0,1>>, <<1,1,1,1>> >>),
      MaskOf(<< <<1,1,1,1,1>>, <<1,0,0,1,1>>, <<1,0,1,0,1>>,
                <<1,0,0,0,1>>, <<1,1,1,1,1>> >>) }

\* The calls: ".notdef" as both drivers register it, and a character with
\* any mask at the height and ascent of the unihex and legacy call sites.
GlyphCalls ==
    {[op |-> "add_glyph", char |-> NOTDEF, mask |-> NotdefMask,
      height |-> 8, ascent |-> 8]}
    \cup {[op |-> "add_glyph", char |-> 65, mask |-> m,
           height |-> 8, ascent |-> 7] :
             m \in InputMasks \cup ShapeMasks}

GlyphInit ==
    /\ arg \in GlyphCalls
    /\ \E b \in {NewFontBuilder, add_space(NewFontBuilder, 65, 4)} :
          seen = b.seen /\ fonts = b.fonts
    /\ pc = "add_glyph"
    /\ bold = NoMask
    /\ k = 1
    /\ regions = NoRegions
    /\ driver = "none" /\ data = <<>> /\ providers = <<>>
    /\ i = 1 /\ j = 1
    /\ built = [s \in StyleSet |-> NoFont]

\* Lines 183-185: return when the character is seen, else mark it seen.
GlyphEnter ==
    /\ pc = "add_glyph"
    /\ IF arg.char \in seen
       THEN pc' = "done" /\ seen' = seen
       ELSE pc' = "dilate" /\ seen' = seen \cup {arg.char}
    /\ UNCHANGED <<fonts, arg, bold, k, regions, driverVars>>

\* Lines 187-196: the bold mask.
GlyphDilate ==
    /\ pc = "dilate"
    /\ bold' = BoldMask(arg.mask)
    /\ k' = 1
    /\ pc' = "loop"
    /\ UNCHANGED <<seen, fonts, arg, regions, driverVars>>

\* Lines 198-205 and 481-494: the k-th style's call of vectorize, up to
\* the return of separate_regions.
GlyphSeparate ==
    /\ pc = "loop"
    /\ k <= Len(Styles)
    /\ regions' = separate_regions(StyleMask(Styles[k], arg.mask, bold))
    /\ pc' = "emit"
    /\ UNCHANGED <<seen, fonts, arg, bold, k, driverVars>>

\* Lines 495-523 and 206-210: the rest of vectorize, and the entry stored.
\* trace_outline raises on a region without a set bit (start is None).
GlyphEmit ==
    /\ pc = "emit"
    /\ IF \/ \E n \in 1..Len(regions.filled) : regions.filled[n].ink = {}
          \/ \E n \in 1..Len(regions.holes) : regions.holes[n].ink = {}
       THEN pc' = "raised" /\ UNCHANGED <<fonts, k>>
       ELSE /\ LET s == Styles[k]
                   v == VectorizeRegions(StyleMask(s, arg.mask, bold), regions,
                            GlyphScale(arg.mask, arg.height),
                            StyleOffset(s, arg.mask, arg.height, arg.ascent),
                            IsItalic(s))
               IN  fonts' = [fonts EXCEPT ![s] =
                                DictSet(@, arg.char,
                                    GlyphItem(arg.char, v, arg.mask, arg.height))]
            /\ k' = k + 1
            /\ pc' = IF k < Len(Styles) THEN "loop" ELSE "done"
    /\ UNCHANGED <<seen, arg, bold, regions, driverVars>>

GlyphNext == GlyphEnter \/ GlyphDilate \/ GlyphSeparate \/ GlyphEmit

GlyphSpec == GlyphInit /\ [][GlyphNext]_vars

\* ------------------------------------------------- claims on add_glyph
\* The style whose entry the last GlyphEmit stored, and that entry.
Emitted == (pc = "loop" \/ pc = "done") /\ k > 1
EmittedStyle == Styles[k - 1]
EmittedMask == StyleMask(EmittedStyle, arg.mask, bold)
EmittedItem == DictGet(fonts[EmittedStyle], arg.char)

\* Twice the signed area of a closed contour of rational points.
RECURSIVE Shoelace(_, _)
Shoelace(c, n) ==
    IF n > Len(c) THEN Num(0)
    ELSE LET p == c[n]
             q == c[(n % Len(c)) + 1]
         IN  RatAdd(RatSub(RatMul(p[1], q[2]), RatMul(q[1], p[2])),
                    Shoelace(c, n + 1))
Winding(c) ==
    LET a == Shoelace(c, 1)[1]
    IN  IF a > 0 THEN 1 ELSE IF a < 0 THEN -1 ELSE 0

\* A filled square with a centred square hole.
IsSquareRing(m) ==
    /\ m.w = m.h
    /\ \E t \in 1..m.w : \E c \in 1..m.w :
          /\ 2 * t + c = m.w
          /\ m.ink = {p \in (0..(m.w - 1)) \X (0..(m.h - 1)) :
                         ~(/\ t <= p[1] /\ p[1] < t + c
                           /\ t <= p[2] /\ p[2] < t + c)}

\* C4: in the outline vectorize returns, every contour of a hole winds
\* opposite to every contour of a filled region (so to the one around
\* it), and neither has zero area; a filled square with a centred square
\* hole and the 5 x 8 ring of ".notdef" give one filled region, one hole
\* region and two contours.
C4_Winding ==
    Emitted /\ EmittedItem.path # NULL =>
        LET cs == EmittedItem.path.contours
            nf == Len(regions.filled)
            nh == Len(regions.holes)
        IN  /\ Len(cs) = nf + nh
            /\ \A a \in 1..nf : \A b \in (nf + 1)..(nf + nh) :
                  /\ Winding(cs[a]) # 0
                  /\ Winding(cs[b]) = -Winding(cs[a])
            /\ (IsSquareRing(EmittedMask) \/ EmittedMask = NotdefMask) =>
                  nf = 1 /\ nh = 1 /\ Len(cs) = 2

C4_Witness ==
    /\ Emitted
    /\ IsSquareRing(EmittedMask)
    /\ arg.char \notin {NOTDEF}
    /\ EmittedItem.path # NULL
    /\ Len(regions.holes) = 1

\* The corners of the closed trace T (T[1] = T[Len(T)]) at which the step
\* into the corner and the step out of it differ, in the order of T.
RECURSIVE TurningCorners(_, _)
TurningCorners(T, a) ==
    IF a >= Len(T) THEN <<>>
    ELSE LET before == IF a = 1 THEN T[Len(T) - 1] ELSE T[a - 1]
             stepIn == <<T[a][1] - before[1], T[a][2] - before[2]>>
             stepOut == <<T[a + 1][1] - T[a][1], T[a + 1][2] - T[a][2]>>
         IN  (IF stepIn # stepOut THEN <<T[a]>> ELSE <<>>)
                 \o TurningCorners(T, a + 1)

RatCollinear(p1, p2, p3) ==
    RatSub(RatMul(RatSub(p2[1], p1[1]), RatSub(p3[2], p1[2])),
           RatMul(RatSub(p3[1], p1[1]), RatSub(p2[2], p1[2]))) = Num(0)

\* The trace behind the n-th contour of the emitted outline.
TraceOfContour(n) ==
    IF n <= Len(regions.filled)
    THEN trace_outline(regions.filled[n])
    ELSE Reversed(trace_outline(regions.holes[n - Len(regions.filled)]))

\* C5: every contour vectorize emits holds exactly the corners of its
\* trace at which the direction changes, each occurrence once and in
\* order, so that no point of the closed contour is collinear with the
\* point before it and the point after it; the 5 x 8 ring gives 4 points
\* for the outer contour and 4 for the inner one.
C5_Simplification ==
    Emitted /\ EmittedItem.path # NULL =>
        LET cs == EmittedItem.path.contours
            s == EmittedStyle
        IN  /\ \A n \in 1..Len(cs) :
                  LET c == cs[n]
                      turns == TurningCorners(TraceOfContour(n), 1)
                  IN  /\ c = [a \in 1..Len(turns) |->
                                transform(turns[a], EmittedMask.h,
                                    GlyphScale(arg.mask, arg.height),
                                    StyleOffset(s, arg.mask, arg.height, arg.ascent),
                                    IsItalic(s))]
                      /\ Len(c) >= 3
                      /\ \A a \in 1..Len(c) :
                            ~RatCollinear(c[IF a = 1 THEN Len(c) ELSE a - 1],
                                          c[a], c[(a % Len(c)) + 1])
            /\ EmittedMask = NotdefMask =>
                  Len(cs) = 2 /\ Len(cs[1]) = 4 /\ Len(cs[2]) = 4

\* A contour whose trace has a straight run of three corners.
C5_Witness ==
    /\ Emitted
    /\ EmittedItem.path # NULL
    /\ Len(regions.holes) = 1
    /\ \E a \in 1..(Len(TraceOfContour(1)) - 2) :
          LET T == TraceOfContour(1)
          IN  collinear(T[a], T[a + 1], T[a + 2])
    /\ Len(TraceOfContour(2)) > Len(EmittedItem.path.contours[2]) + 1

\* C6: the bold mask add_glyph builds from a w x h mask is (w+1) x h, and
\* its pixel (x, y) is set exactly when the input has (x, y) or (x-1, y)
\* set, positions outside the input counting as not set; the call leaves
\* its input mask as it was.
C6_Dilation ==
    [][/\ arg' = arg
       /\ pc = "dilate" =>
            /\ bold'.w = arg.mask.w + 1
            /\ bold'.h = arg.mask.h
            /\ bold'.ink \subseteq (0..arg.mask.w) \X (0..(arg.mask.h - 1))
            /\ \A x \in 0..arg.mask.w : \A y \in 0..(arg.mask.h - 1) :
                  get_at(bold', x, y) <=>
                      \/ (x < arg.mask.w /\ get_at(arg.mask, x, y))
                      \/ (x >= 1 /\ get_at(arg.mask, x - 1, y))]_vars

\* A dilated mask in which a pixel is set only by the shifted copy.
C6_Witness ==
    /\ pc = "loop"
    /\ bold.w = arg.mask.w + 1
    /\ \E p \in bold.ink : p \notin arg.mask.ink /\ <<p[1] - 1, p[2]>> \in arg.mask.ink
    /\ \E p \in bold.ink : p \in arg.mask.ink /\ <<p[1] - 1, p[2]>> \notin arg.mask.ink

\* The call registered its character and has returned.
Registered == pc = "done" /\ k > 1

\* C10 as stated: a mask without ink and a mask of one ink pixel both get
\* a null outline in every style, without an error, and the ink-free mask
\* zero extent.
C10_AsStated ==
    /\ Cardinality(arg.mask.ink) <= 1 => pc # "raised"
    /\ Registered /\ Cardinality(arg.mask.ink) <= 1 =>
          \A s \in StyleSet : DictGet(fonts[s], arg.char).path = NULL
    /\ Registered /\ arg.mask.ink = {} =>
          \A s \in StyleSet :
              /\ DictGet(fonts[s], arg.char).height = Num(0)
              /\ DictGet(fonts[s], arg.char).width =
                    RatMul(AddWidth(arg.mask, arg.height),
                           GlyphScale(arg.mask, arg.height))

\* C10, amended: degenerate geometry is not an error; a mask without ink
\* gets a null outline in every style and zero extent (height 0, and the
\* width of add_width alone); a mask of one ink pixel gets, in every
\* style, an outline of one closed contour of four points.
C10_Degenerate ==
    /\ Cardinality(arg.mask.ink) <= 1 => pc # "raised"
    /\ Registered /\ arg.mask.ink = {} =>
          \A s \in StyleSet :
              /\ DictGet(fonts[s], arg.char).path = NULL
              /\ DictGet(fonts[s], arg.char).height = Num(0)
              /\ DictGet(fonts[s], arg.char).width =
                    RatMul(AddWidth(arg.mask, arg.height),
                           GlyphScale(arg.mask, arg.height))
    /\ Registered /\ Cardinality(arg.mask.ink) = 1 =>
          \A s \in StyleSet :
              LET path == DictGet(fonts[s], arg.char).path
              IN  /\ path # NULL
                  /\ Len(path.contours) = 1
                  /\ Len(path.contours[1]) = 4

C10_Witness ==
    /\ Registered
    /\ arg.mask.ink = {}
    /\ arg.mask.w * arg.mask.h > 1
    /\ \A s \in StyleSet : DictGet(fonts[s], arg.char).path = NULL

\* ------------------------------------------------ claims on the regions
\* Two pixels next to each other: orthogonally, or also diagonally.
Near(p, q, diagonal) ==
    /\ p # q
    /\ Abs(p[1] - q[1]) <= 1
    /\ Abs(p[2] - q[2]) <= 1
    /\ diagonal \/ Abs(p[1] - q[1]) + Abs(p[2] - q[2]) = 1

\* The pixels of P joined to a pixel of S by a path of pixels of P.
RECURSIVE Reach(_, _, _)
Reach(P, S, diagonal) ==
    LET N == {q \in P \ S : \E p \in S : Near(p, q, diagonal)}
    IN  IF N = {} THEN S ELSE Reach(P, S \cup N, diagonal)

\* Two ink pixels of m that touch at a corner and share no ink neighbour
\* across that corner.
TouchOnlyDiagonally(m, p, q) ==
    /\ p \in m.ink /\ q \in m.ink
    /\ Abs(p[1] - q[1]) = 1 /\ Abs(p[2] - q[2]) = 1
    /\ <<p[1], q[2]>> \notin m.ink
    /\ <<q[1], p[2]>> \notin m.ink

FilledOf(p) ==
    CHOOSE n \in 1..Len(regions.filled) : p \in regions.filled[n].ink

Background(m) == (((-1)..m.w) \X ((-1)..m.h)) \ m.ink
Outside(m) ==
    Reach(Background(m),
          {p \in Background(m) : \/ p[1] = -1 \/ p[1] = m.w
                                 \/ p[2] = -1 \/ p[2] = m.h},
          FALSE)
Enclosed(m) == Background(m) \ Outside(m)

\* C12: the hole regions of separate_regions are exactly the maximal sets
\* of pixels without ink, joined by orthogonal steps, from which no path
\* of such steps over pixels without ink leaves the mask; they are in the
\* coordinates and of the size of the mask, pairwise disjoint, without an
\* ink pixel, and without a pixel of the mask's outer rows and columns.
C12_Holes ==
    Emitted =>
        /\ UNION {regions.holes[n].ink : n \in 1..Len(regions.holes)}
              = Enclosed(EmittedMask)
        /\ \A n \in 1..Len(regions.holes) :
              /\ regions.holes[n].w = EmittedMask.w
              /\ regions.holes[n].h = EmittedMask.h
              /\ regions.holes[n].ink # {}
              /\ regions.holes[n].ink \cap EmittedMask.ink = {}
              /\ \A p \in regions.holes[n].ink :
                    /\ regions.holes[n].ink
                          = Reach(Background(EmittedMask), {p}, FALSE)
                    /\ 0 < p[1] /\ p[1] < EmittedMask.w - 1
                    /\ 0 < p[2] /\ p[2] < EmittedMask.h - 1
              /\ \A a \in 1..Len(regions.holes) :
                    a # n => regions.holes[a].ink \cap regions.holes[n].ink = {}

\* Two holes that touch at a corner stay two holes, and a hole that
\* touches a pixel without ink on the outer row only at a corner stays a
\* hole.
C12_Witness ==
    /\ Emitted
    /\ \/ /\ Len(regions.holes) = 2
          /\ \E p \in regions.holes[1].ink : \E q \in regions.holes[2].ink :
                Near(p, q, TRUE)
       \/ /\ Len(regions.holes) = 1
          /\ \E p \in regions.holes[1].ink :
                \E q \in Outside(EmittedMask) :
                    /\ Near(p, q, TRUE)
                    /\ 0 <= q[1] /\ q[1] < EmittedMask.w
                    /\ 0 <= q[2] /\ q[2] < EmittedMask.h

\* ------------------------------------------------- claims on the trace
\* The region masks of the emitted style, filled regions first.
RegionMasks == regions.filled \o regions.holes

\* A trace that came back to its start: it ends within the passes a walk
\* over distinct (corner, facing) pairs can take, at the start corner.
Closed(T, m) ==
    /\ Len(T) >= 5
    /\ Len(T) <= TraceFuel(m) + 1
    /\ T[1] = FirstPixel(m.ink)
    /\ T[Len(T)] = T[1]
    /\ \A a \in 2..(Len(T) - 1) : T[a] # T[1]
    /\ \A a \in 1..(Len(T) - 1) :
          Abs(T[a + 1][1] - T[a][1]) + Abs(T[a + 1][2] - T[a][2]) = 1

\* C13: for every region separate_regions returns, filled or hole,
\* trace_outline ends; its result starts and ends at the top-left corner
\* of the region's first pixel in row-major order, does not pass that
\* corner in between, and moves by one unit step along one axis from each
\* point to the next; the contour stored for the region is the one this
\* trace gives, beginning at that corner.
C13_TraceCloses ==
    Emitted /\ EmittedItem.path # NULL =>
        /\ Len(EmittedItem.path.contours) = Len(RegionMasks)
        /\ \A n \in 1..Len(RegionMasks) :
              /\ Closed(trace_outline(RegionMasks[n]), RegionMasks[n])
              /\ EmittedItem.path.contours[n][1] =
                    transform(FirstPixel(RegionMasks[n].ink), EmittedMask.h,
                        GlyphScale(arg.mask, arg.height),
                        StyleOffset(EmittedStyle, arg.mask, arg.height, arg.ascent),
                        IsItalic(EmittedStyle))

\* A corner of m at which two pixels of m touch only diagonally.
DiagonalCorner(m, pos) ==
    LET tl == get(m, pos[1] - 1, pos[2] - 1)
        tr == get(m, pos[1], pos[2] - 1)
        bl == get(m, pos[1] - 1, pos[2])
        br == get(m, pos[1], pos[2])
    IN  (tl /\ br /\ ~tr /\ ~bl) \/ (tr /\ bl /\ ~tl /\ ~br)

\* A mask with a hole whose filled region is traced through a corner
\* where two of its pixels touch only diagonally; both traces close.
C13_Witness ==
    /\ Emitted
    /\ EmittedItem.path # NULL
    /\ Len(regions.holes) >= 1
    /\ Closed(trace_outline(regions.holes[1]), regions.holes[1])
    /\ \E n \in 1..Len(regions.filled) :
          LET T == trace_outline(regions.filled[n])
          IN  /\ Closed(T, regions.filled[n])
              /\ \E a \in 2..(Len(T) - 1) :
                    DiagonalCorner(regions.filled[n], T[a])

\* ------------------------------------- claims on the reference expansion
\* A reference whose list can be read, and that list: the jar's, or the
\* downloaded one when the jar's is empty.
Readable(id) ==
    /\ id \in DOMAIN JarFonts
    /\ JarFonts[id] # <<>> \/ id \in DOMAIN AssetFonts
TargetOf(id) ==
    IF JarFonts[id] # <<>> THEN JarFonts[id] ELSE AssetFonts[id]

RefIds(list) ==
    {list[n].id : n \in {a \in 1..Len(list) : list[a].type = "reference"}}

\* The references met from the references S, through the lists they name.
RECURSIVE ReachIds(_)
ReachIds(S) ==
    LET N == UNION {RefIds(TargetOf(id)) : id \in {x \in S : Readable(x)}} \ S
    IN  IF N = {} THEN S ELSE ReachIds(S \cup N)

\* No list reachable from the list refers back to itself.
Acyclic(list) ==
    \A id \in ReachIds(RefIds(list)) :
        Readable(id) => id \notin ReachIds(RefIds(TargetOf(id)))

AllReadable(list) == \A id \in ReachIds(RefIds(list)) : Readable(id)

\* The list with every reference replaced, at its own position, by the
\* flattening of the list it names; a reference that cannot be read is
\* skipped.  Defined for an acyclic list.
RECURSIVE Flatten(_)
Flatten(list) ==
    IF list = <<>> THEN <<>>
    ELSE (IF Head(list).type # "reference" THEN <<Head(list)>>
          ELSE IF Readable(Head(list).id)
               THEN Flatten(TargetOf(Head(list).id))
               ELSE <<>>)
         \o Flatten(Tail(list))

ExpansionOver == pc \notin {"expand", "aborted"}

\* C14: the expansion loop ends exactly when no provider list reachable
\* from the entry refers back to itself: for such an entry the loop ends
\* with a list that holds no reference and is the in-place flattening of
\* the entry, in order; for any other entry the loop never ends.
C14_AsStated ==
    driver = "modern" =>
        IF Acyclic(data)
        THEN /\ pc # "aborted"
             /\ ExpansionOver =>
                   /\ providers = Flatten(data)
                   /\ \A n \in 1..Len(providers) :
                         providers[n].type # "reference"
        ELSE pc = "expand"

\* What holds of the loop when every reference met can be read: on an
\* acyclic entry every pass of the loop can be taken until the loop ends,
\* and it ends with the flattening; on any other entry it never ends.
C14_WhenReadable ==
    (driver = "modern" /\ AllReadable(data)) =>
        IF Acyclic(data)
        THEN /\ pc # "aborted"
             /\ pc = "expand" =>
                   ENABLED (ExpandReference \/ ExpandSkip \/ ExpandExit)
             /\ ExpansionOver =>
                   /\ providers = Flatten(data)
                   /\ \A n \in 1..Len(providers) :
                         providers[n].type # "reference"
        ELSE pc = "expand"

\* ------------------------------------------------ claims on the extent
\* The extent (gw, gh) behind the stored entry: width is
\* (gw + add_width) * scale and height is gh * scale.
StoredExtent(gw, gh) ==
    /\ EmittedItem.width =
          RatMul(RatAdd(Num(gw), AddWidth(arg.mask, arg.height)),
                 GlyphScale(arg.mask, arg.height))
    /\ EmittedItem.height = RatMul(Num(gh), GlyphScale(arg.mask, arg.height))

MinOf(S) == CHOOSE a \in S : \A b \in S : a <= b

\* C15: for a mask with ink, the extent vectorize returns is (X, Y) with
\* X one more than the largest column that holds ink and Y one more than
\* the largest row that holds ink.
C15_AsStated ==
    Emitted /\ EmittedMask.ink # {} =>
        StoredExtent(1 + MaxOf({p[1] : p \in EmittedMask.ink}),
                     1 + MaxOf({p[2] : p \in EmittedMask.ink}))

\* What the extent is: X as above, and Y the largest, over the connected
\* components of the ink, of the component's first row.
C15_RightAndTop ==
    Emitted /\ EmittedMask.ink # {} =>
        StoredExtent(1 + MaxOf({p[1] : p \in EmittedMask.ink}),
                     MaxOf({MinOf({q[2] : q \in Reach(EmittedMask.ink, {p}, TRUE)}) :
                               p \in EmittedMask.ink}))

====
